---- MODULE Spec2Model ----
(***************************************************************************)
(* A model of rig_calibrator/bin/texrecon.py: the manifest parser, the     *)
(* intrinsics normaliser, the camera-file writer and the sequential        *)
(* pipeline that runs them around the two external processes.              *)
(*                                                                         *)
(* Text is modelled as it is in the program: a string is a sequence of     *)
(* one-character strings, a text file is a sequence of lines (manifest,    *)
(* intrinsics file) or the sequence of characters written to it (camera    *)
(* file).  Floating-point values are exact rationals [n, d] in lowest      *)
(* terms, or NaN; the inputs of the model are dyadic, so that the          *)
(* arithmetic of the program is exact on them and "%0.17g" prints their    *)
(* exact decimal expansion.                                                *)
(***************************************************************************)
EXTENDS Integers, Sequences, FiniteSets, TLC

VARIABLES
    args,               \* the command-line namespace (process_args)
    manifest,           \* the lines of the file args.image_list
    undist_result,      \* what the undistorter writes as intrinsics file
    fs,                 \* files under undist_dir: path -> characters
    pc,                 \* the position of the run in __main__
    status,             \* "running", "ok" or "failed"
    failed_at,          \* the stage that failed, "" when none
    images,             \* result of parse_images_and_camera_poses
    world_to_cam,       \*   "
    undistorted_images, \* result of undistort_images
    intr,               \* result of convert_intrinsics_to_texrecon
    it,                 \* loop index of create_texrecon_cameras (1-based)
    proc_log,           \* external processes started in this run, in order
    exit_log,           \* their exit codes
    stage_log,          \* stages begun in this run, in order
    wlog,               \* camera files completed in this run: path, content
    opened,             \* camera files opened in this run
    run,                \* number of the current run
    fs_at_start         \* the files under undist_dir as the run found them

vars == <<args, manifest, undist_result, fs, pc, status, failed_at, images,
          world_to_cam, undistorted_images, intr, it, proc_log, exit_log,
          stage_log, wlog, opened, run, fs_at_start>>

\* what a step of a run leaves alone
inputs == <<args, manifest, undist_result, fs_at_start>>

----------------------------------------------------------------------------
(* Bounds *)

MaxLines == 2        \* lines of a manifest given to the parser alone
MaxPipeLines == 2    \* lines of a manifest given to the pipeline
MaxIntrLines == 2    \* lines of an intrinsics file
MaxSeq == 2          \* length of the sequences given to the writer alone
MaxRuns == 2         \* runs of the pipeline on the same inputs

----------------------------------------------------------------------------
(* Strings *)

RECURSIVE Join(_, _)
\* sep.join(parts)
Join(parts, sep) ==
    IF parts = <<>> THEN <<>>
    ELSE IF Len(parts) = 1 THEN parts[1]
    ELSE parts[1] \o sep \o Join(Tail(parts), sep)

\* str.rfind(c), 1-based, 0 when absent
RFind(s, c) ==
    IF \E i \in 1..Len(s) : s[i] = c
    THEN CHOOSE i \in 1..Len(s) :
            s[i] = c /\ \A j \in (i+1)..Len(s) : s[j] # c
    ELSE 0

\* str.find(c), 1-based, 0 when absent
Find(s, c) ==
    IF \E i \in 1..Len(s) : s[i] = c
    THEN CHOOSE i \in 1..Len(s) : s[i] = c /\ \A j \in 1..(i-1) : s[j] # c
    ELSE 0

IsSpace(c) == c \in {" ", "\t", "\n", "\r"}

\* str.rstrip(cs): the string up to its last character outside cs
RStripChars(s, cs) ==
    LET keep == {i \in 1..Len(s) : s[i] \notin cs}
    IN  IF keep = {} THEN <<>>
        ELSE SubSeq(s, 1, CHOOSE i \in keep : \A j \in keep : j <= i)

\* str.rstrip()
RStrip(s) == RStripChars(s, {" ", "\t", "\n", "\r"})

\* the least element of a non-empty set of numbers
Least(S) == CHOOSE i \in S : \A j \in S : i <= j

RECURSIVE Pieces(_, _, _)
\* the pieces of s that begin at the places in starts and end at the places
\* in ends, in order
Pieces(s, starts, ends) ==
    IF starts = {} THEN <<>>
    ELSE LET st == Least(starts)
             en == Least(ends)
         IN  <<SubSeq(s, st, en)>> \o Pieces(s, starts \ {st}, ends \ {en})

\* the maximal runs of characters outside seps, in order
Runs(s, seps) ==
    Pieces(s,
           {i \in 1..Len(s) : s[i] \notin seps /\ (i = 1 \/ s[i - 1] \in seps)},
           {i \in 1..Len(s) :
               s[i] \notin seps /\ (i = Len(s) \/ s[i + 1] \in seps)})

\* str.split()
Split(s) == Runs(s, {" ", "\t", "\n", "\r"})

\* os.path.dirname (posixpath)
Dirname(p) ==
    LET i == RFind(p, "/")
        head == SubSeq(p, 1, i)
    IN  IF head # <<>> /\ \E k \in 1..Len(head) : head[k] # "/"
        THEN RStripChars(head, {"/"})
        ELSE head

\* os.path.basename (posixpath)
Basename(p) == SubSeq(p, RFind(p, "/") + 1, Len(p))

\* os.path.splitext (genericpath._splitext): the extension starts at the last
\* dot of the last component, unless only dots precede it in that component
Splitext(p) ==
    LET sepIndex == RFind(p, "/")
        dotIndex == RFind(p, ".")
    IN  IF dotIndex > sepIndex
           /\ \E k \in (sepIndex + 1)..(dotIndex - 1) : p[k] # "."
        THEN <<SubSeq(p, 1, dotIndex - 1), SubSeq(p, dotIndex, Len(p))>>
        ELSE <<p, <<>>>>

----------------------------------------------------------------------------
(* Floating-point values *)

NaN == [n |-> 0, d |-> 0]
ValueError == [n |-> 1, d |-> 0]      \* float() raised
ZeroDivisionError == [n |-> 2, d |-> 0]

IsNum(v) == v.d > 0
IsErr(v) == v.d = 0 /\ v.n # 0

Abs(x) == IF x < 0 THEN -x ELSE x

RECURSIVE Gcd(_, _)
Gcd(a, b) == IF b = 0 THEN a ELSE Gcd(b, a % b)

\* the rational n/d in lowest terms, d > 0
Rat(n, d) ==
    LET g == Gcd(Abs(n), Abs(d))
        s == IF d < 0 THEN -1 ELSE 1
    IN  [n |-> s * (n \div g), d |-> s * (d \div g)]

Digits == <<"0", "1", "2", "3", "4", "5", "6", "7", "8", "9">>
IsDigit(c) == \E k \in 1..10 : Digits[k] = c
DigitVal(c) == (CHOOSE k \in 1..10 : Digits[k] = c) - 1

RECURSIVE Pow(_, _)
Pow(b, e) == IF e = 0 THEN 1 ELSE b * Pow(b, e - 1)

RECURSIVE DecVal(_)
\* the number written by a string of decimal digits
DecVal(s) == IF s = <<>> THEN 0
             ELSE 10 * DecVal(SubSeq(s, 1, Len(s) - 1)) + DigitVal(s[Len(s)])

\* float(tok) for tokens over the characters of the model (digits, sign,
\* point, letters other than e, i, f): an optional sign, then digits with an
\* optional point, or "nan"; anything else raises ValueError
Float(tok) ==
    LET neg  == tok # <<>> /\ tok[1] = "-"
        body == IF tok # <<>> /\ tok[1] \in {"-", "+"} THEN Tail(tok) ELSE tok
        dot  == Find(body, ".")
        ip   == IF dot = 0 THEN body ELSE SubSeq(body, 1, dot - 1)
        fp   == IF dot = 0 THEN <<>> ELSE SubSeq(body, dot + 1, Len(body))
        sgn  == IF neg THEN -1 ELSE 1
    IN  IF body = <<"n", "a", "n">> THEN NaN
        ELSE IF /\ ip \o fp # <<>>
                /\ \A k \in 1..Len(ip) : IsDigit(ip[k])
                /\ \A k \in 1..Len(fp) : IsDigit(fp[k])
             THEN Rat(sgn * DecVal(ip \o fp), Pow(10, Len(fp)))
             ELSE ValueError

\* a / b on Python floats
FDiv(a, b) ==
    IF b = NaN THEN NaN
    ELSE IF b.n = 0 THEN ZeroDivisionError
    ELSE IF a = NaN THEN NaN
    ELSE Rat(a.n * b.d, a.d * b.n)

\* a > b on Python floats: false when either is NaN
FGt(a, b) == IsNum(a) /\ IsNum(b) /\ a.n * b.d > b.n * a.d

\* a <= b on Python floats: false when either is NaN
FLe(a, b) == IsNum(a) /\ IsNum(b) /\ a.n * b.d <= b.n * a.d

Zero == Rat(0, 1)
One == Rat(1, 1)

RECURSIVE NatStr(_)
\* the decimal digits of a natural number
NatStr(k) == IF k < 10 THEN <<Digits[k + 1]>>
             ELSE NatStr(k \div 10) \o <<Digits[(k % 10) + 1]>>

RECURSIVE Log2(_)
Log2(d) == IF d = 1 THEN 0 ELSE 1 + Log2(d \div 2)

RECURSIVE ZeroPad(_, _)
ZeroPad(s, w) == IF Len(s) >= w THEN s ELSE ZeroPad(<<"0">> \o s, w)

\* "%0.17g" % v for NaN and for the dyadic values n / 2^k of the model: the
\* exact decimal expansion n * 5^k / 10^k, without trailing zeros
Fmt(v) ==
    IF v = NaN THEN <<"n", "a", "n">>
    ELSE LET k  == Log2(v.d)
             m  == Abs(v.n) * Pow(5, k)
             ip == NatStr(m \div Pow(10, k))
             fp == IF k = 0 THEN <<>>
                   ELSE <<".">> \o ZeroPad(NatStr(m % Pow(10, k)), k)
         IN  (IF v.n < 0 THEN <<"-">> ELSE <<>>) \o ip \o fp

----------------------------------------------------------------------------
(* Files *)

\* f.readlines() / "for line in f": the lines of a text, terminators kept;
\* a line ends at a newline or at the end of the text
ReadLines(data) ==
    Pieces(data,
           {i \in 1..Len(data) : i = 1 \/ data[i - 1] = "\n"},
           {i \in 1..Len(data) : data[i] = "\n" \/ i = Len(data)})

\* the file system below undist_dir is a set of [path, data] records
Exists(files, p) == \E f \in files : f.path = p
DataOf(files, p) == (CHOOSE f \in files : f.path = p).data

\* open(p, "w") followed by writes that leave data in the file
WriteFile(files, p, data) ==
    {f \in files : f.path # p} \cup {[path |-> p, data |-> data]}

IsPrefix(s, t) == Len(s) <= Len(t) /\ SubSeq(t, 1, Len(s)) = s

\* the old directory kept
Rmtree_m(files, dir) == files

\* shutil.rmtree(dir): nothing below dir is left
Rmtree(files, dir) == {f \in files : ~IsPrefix(dir \o <<"/">>, f.path)}

----------------------------------------------------------------------------
(* parse_images_and_camera_poses *)

\* m = re.match("^(.*?)\#", line); if m: line = m.group(1)
WipeComments(line) ==
    LET h == Find(line, "#")
        n == Find(line, "\n")
    IN  IF h > 0 /\ (n = 0 \/ h < n) THEN SubSeq(line, 1, h - 1) ELSE line

\* a check that only asks for the image path
TooFewTokens_m(vals) == Len(vals) < 1

\* len(vals) < 13
TooFewTokens(vals) == Len(vals) < 13

\* vals[1:13]
NumericTokens(vals) ==
    SubSeq(vals, 2, IF Len(vals) < 13 THEN Len(vals) ELSE 13)

\* the whole directory compared, not its last component
SensorMatches_m(image, rig_sensor) == Dirname(image) = rig_sensor

\* curr_sensor != rig_sensor, negated
SensorMatches(image, rig_sensor) == Basename(Dirname(image)) = rig_sensor

\* every float(vals[count]) of the two loops returns (no ValueError, no
\* IndexError)
PoseParses(vals) ==
    \A count \in 1..12 : count <= Len(vals) /\ ~IsErr(Float(vals[count]))

\* the rotation read column by column
PoseMatrix_m(vals) ==
    [row \in 1..4 |-> [col \in 1..4 |->
        IF row <= 3 /\ col <= 3 THEN Float(vals[3 * (col - 1) + row])
        ELSE IF row <= 3 THEN Float(vals[9 + row])
        ELSE [n |-> 1, d |-> 1]]]

\* M = np.ones((4,4)) with the rotation read row by row into M[0..2][0..2]
\* and then the translation into M[0..2][3]
PoseMatrix(vals) ==
    [row \in 1..4 |-> [col \in 1..4 |->
        IF row <= 3 /\ col <= 3 THEN Float(vals[3 * (row - 1) + col])
        ELSE IF row <= 3 THEN Float(vals[9 + row])
        ELSE One]]

ParseFailure ==
    [status |-> "ParseError", images |-> <<>>, world_to_cam |-> <<>>]

RECURSIVE ParseLoop(_, _, _, _, _)
\* the loop over the lines, from line i on
ParseLoop(lines, i, rig_sensor, imgs, poses) ==
    IF i > Len(lines)
    THEN [status |-> "ok", images |-> imgs, world_to_cam |-> poses]
    ELSE LET line == RStrip(WipeComments(lines[i]))
             vals == Split(line)
         IN  IF Len(line) = 0
             THEN ParseLoop(lines, i + 1, rig_sensor, imgs, poses)
             ELSE IF TooFewTokens(vals) THEN ParseFailure
             ELSE IF ~SensorMatches(vals[1], rig_sensor)
             THEN ParseLoop(lines, i + 1, rig_sensor, imgs, poses)
             ELSE IF ~PoseParses(NumericTokens(vals)) THEN ParseFailure
             ELSE ParseLoop(lines, i + 1, rig_sensor,
                            Append(imgs, vals[1]),
                            Append(poses, PoseMatrix(NumericTokens(vals))))

parse_images_and_camera_poses(image_list_data, rig_sensor) ==
    ParseLoop(ReadLines(image_list_data), 1, rig_sensor, <<>>, <<>>)

----------------------------------------------------------------------------
(* convert_intrinsics_to_texrecon *)

\* re.match("^\s*\#", line)
IsCommentLine(line) ==
    \E h \in 1..Len(line) :
        line[h] = "#" /\ \A k \in 1..(h - 1) : IsSpace(line[k])

IntrFailure(kind) ==
    [status |-> kind, nf |-> Rat(-1, 1), d0 |-> Zero, d1 |-> Zero,
     paspect |-> One, ncx |-> Zero, ncy |-> Zero]

\* nf <= 0, the test after the loop
NotPositive(nf) == FLe(nf, Zero)

\* the body of the loop for the first line that is not a comment
NormalizeLine(line) ==
    LET vals == Split(line)
    IN  IF Len(vals) < 5 THEN IntrFailure("exit1")
        ELSE LET widx == Float(vals[1])
                 widy == Float(vals[2])
                 f    == Float(vals[3])
                 cx   == Float(vals[4])
                 cy   == Float(vals[5])
                 max_wid == IF FGt(widy, widx) THEN widy ELSE widx
                 nf   == FDiv(f, max_wid)
                 ncx  == FDiv(cx, widx)
                 ncy  == FDiv(cy, widy)
             IN  IF \E v \in {widx, widy, f, cx, cy} : IsErr(v)
                 THEN IntrFailure("ValueError")
                 ELSE IF \E v \in {nf, ncx, ncy} : IsErr(v)
                 THEN IntrFailure("ZeroDivisionError")
                 ELSE IF NotPositive(nf) THEN IntrFailure("ParseError")
                 ELSE [status |-> "ok", nf |-> nf, d0 |-> Zero, d1 |-> Zero,
                       paspect |-> One, ncx |-> ncx, ncy |-> ncy]

\* the file is [exists, data]
convert_intrinsics_to_texrecon(file) ==
    IF ~file.exists THEN IntrFailure("MissingFile")
    ELSE LET lines == ReadLines(file.data)
             data_lines == {k \in 1..Len(lines) : ~IsCommentLine(lines[k])}
         IN  IF data_lines = {}
             THEN IntrFailure("ParseError")      \* nf is still -1
             ELSE NormalizeLine(lines[CHOOSE k \in data_lines :
                                        \A j \in data_lines : k <= j])

----------------------------------------------------------------------------
(* create_texrecon_cameras *)

\* the check left out
CountMismatch_m(imgs, poses) == FALSE

\* len(undistorted_images) != len(world_to_cam)
CountMismatch(imgs, poses) == Len(imgs) # Len(poses)

\* cam = path + ".cam"
CamPath(image) == Splitext(image)[1] \o <<".", "c", "a", "m">>

FmtAll(values) == [k \in 1..Len(values) |-> Fmt(values[k])]

\* the translation on a line of its own
TranslationText_m(M) ==
    Join(<<Fmt(M[1][4]), Fmt(M[2][4]), Fmt(M[3][4])>>, <<" ">>) \o <<"\n">>

\* "%0.17g %0.17g %0.17g " % (M[0][3], M[1][3], M[2][3])
TranslationText(M) ==
    Join(FmtAll(<<M[1][4], M[2][4], M[3][4]>>), <<" ">>) \o <<" ">>

\* "%0.17g ... %0.17g\n" % (M[0][0], M[0][1], ..., M[2][2])
RotationText(M) ==
    Join(FmtAll(<<M[1][1], M[1][2], M[1][3], M[2][1], M[2][2], M[2][3],
                  M[3][1], M[3][2], M[3][3]>>), <<" ">>) \o <<"\n">>

\* "%0.17g ... %0.17g\n" % (nf, d0, d1, paspect, ncx, ncy)
IntrinsicsText(k) ==
    Join(FmtAll(<<k.nf, k.d0, k.d1, k.paspect, k.ncx, k.ncy>>), <<" ">>)
        \o <<"\n">>

----------------------------------------------------------------------------
(* Inputs of the model *)

SensorA == <<"A">>
SensorB == <<"B">>

FullArgs(sensor) ==
    [image_list |-> <<"l">>, mesh |-> <<"m">>, rig_config |-> <<"c">>,
     rig_sensor |-> sensor, out_dir |-> <<"o">>,
     undistorted_crop_win |-> <<"9", " ", "9">>]

ArgFlags == {"image_list", "mesh", "rig_config", "rig_sensor", "out_dir",
             "undistorted_crop_win"}

\* every flag given, or exactly one flag left at its default ""
ArgChoices ==
    {FullArgs(SensorA)}
        \cup {[FullArgs(SensorA) EXCEPT ![flag] = <<>>] : flag \in ArgFlags}

\* a line of text: the tokens separated by single spaces, then the newline
Line(tokens) == Join(tokens, <<" ">>) \o <<"\n">>

Img_A_i == <<"A", "/", "i", ".", "p">>
Img_A_j == <<"A", "/", "j", ".", "p">>
Img_B_i == <<"B", "/", "i", ".", "p">>
Img_CA_i == <<"C", "/", "A", "/", "i", ".", "q">>
Img_AB_i == <<"A", "B", "/", "i", ".", "p">>
Img_k == <<"k", ".", "p">>

\* "1" .. "12": twelve different values
Nums12 == [k \in 1..12 |-> NatStr(k)]
\* the identity rotation and the translation (1, 0, -0.5), written with
\* signs, points and trailing zeros
NumsId == << <<"1", ".", "0">>, <<"0">>, <<"0">>,
             <<"0">>, <<"1">>, <<"0", ".", "0">>,
             <<"0">>, <<"0">>, <<"1">>,
             <<"1">>, <<"0">>, <<"-", "0", ".", "5">> >>
\* twelve tokens, the fifth of which is no number
NumsBad == [Nums12 EXCEPT ![5] = <<"x">>]

Comment == <<"#", " ", "c", "\n">>

ParseLineChoices ==
    { Line(<<Img_A_i>> \o Nums12),
      Line(<<Img_A_j>> \o NumsId),
      Line(<<Img_B_i>> \o NumsId),
      Line(<<Img_CA_i>> \o NumsId),
      Line(<<Img_AB_i>> \o Nums12),
      Line(<<Img_k>> \o Nums12),
      Line(<<Img_A_j>> \o Nums12 \o << <<"x">>, <<"7">> >>),
      Line(<<Img_A_i>> \o NumsId \o << <<"#">>, <<"9">> >>),
      Line(<<Img_A_i>> \o SubSeq(Nums12, 1, 11)),
      Line(<<Img_B_i>> \o SubSeq(Nums12, 1, 3)),
      Line(<<Img_A_i>> \o SubSeq(Nums12, 1, 6) \o << <<"#">> >>
               \o SubSeq(Nums12, 7, 12)),
      Line(<<Img_A_j>> \o NumsBad),
      Line(<<Img_B_i>> \o NumsBad),
      Comment,
      <<" ", "\n">> }

PipeLineChoices ==
    { Line(<<Img_A_i>> \o Nums12),
      Line(<<Img_A_j>> \o NumsId \o << <<"x">>, <<"7">> >>),
      Line(<<Img_B_i>> \o NumsId),
      Line(<<Img_CA_i>> \o NumsId),
      Line(<<Img_B_i>> \o SubSeq(Nums12, 1, 3)) }

RECURSIVE Texts(_, _)
\* the texts of at most n lines, each line from the set
Texts(lines, n) ==
    IF n = 0 THEN {<<>>}
    ELSE {<<>>} \cup {l \o t : l \in lines, t \in Texts(lines, n - 1)}

RECURSIVE DistinctTexts(_, _)
\* the texts of at most n lines, each line from the set and no line twice
DistinctTexts(lines, n) ==
    IF n = 0 THEN {<<>>}
    ELSE {<<>>} \cup
         UNION {{l \o t : t \in DistinctTexts(lines \ {l}, n - 1)} :
                   l \in lines}

Tok(k) == NatStr(k)

IntrLineChoices ==
    { Comment,
      <<" ", "#", "\n">>,
      Line(<<Tok(100), Tok(100), Tok(50), Tok(50), Tok(50)>>),
      Line(<<Tok(4), Tok(2), Tok(1), Tok(2), Tok(1)>>),
      Line(<<Tok(2), Tok(4), Tok(3), Tok(1), Tok(1), Tok(7)>>),
      Line(<<Tok(4), Tok(4), Tok(0), Tok(2), Tok(2)>>),
      Line(<<Tok(4), Tok(4), <<"-", "1">>, Tok(2), Tok(2)>>),
      Line(<<Tok(4), Tok(4), <<"n", "a", "n">>, Tok(2), Tok(2)>>),
      Line(<<Tok(4), Tok(4), <<"x">>, Tok(2), Tok(2)>>),
      Line(<<Tok(0), Tok(4), Tok(1), Tok(2), Tok(2)>>),
      Line(<<Tok(1), Tok(2)>>),
      <<"\n">> }

IntrFiles ==
    {[exists |-> FALSE, data |-> <<>>]}
        \cup {[exists |-> TRUE, data |-> t] :
                 t \in Texts(IntrLineChoices, MaxIntrLines)}

\* what the undistorter leaves as intrinsics file in the runs of the pipeline
UndistResults ==
    { [exists |-> FALSE, data |-> <<>>],
      [exists |-> TRUE,
       data |-> Line(<<Tok(100), Tok(100), Tok(50), Tok(50), Tok(50)>>)],
      [exists |-> TRUE,
       data |-> Comment \o Line(<<Tok(2), Tok(4), Tok(3), Tok(1), Tok(1)>>)],
      [exists |-> TRUE,
       data |-> Line(<<Tok(4), Tok(4), Tok(0), Tok(2), Tok(2)>>)] }

\* undist_dir = args.out_dir + "/" + args.rig_sensor + "/undistorted_images"
UndistDir(a) ==
    a.out_dir \o <<"/">> \o a.rig_sensor
        \o <<"/", "u", "n", "d", "i", "s", "t", "o", "r", "t", "e", "d",
             "_", "i", "m", "a", "g", "e", "s">>

\* undist_intrinsics = undist_dir + "/undistorted_intrinsics.txt"
UndistIntrinsics(a) ==
    UndistDir(a)
        \o <<"/", "u", "n", "d", "i", "s", "t", "o", "r", "t", "e", "d",
             "_", "i", "n", "t", "r", "i", "n", "s", "i", "c", "s",
             ".", "t", "x", "t">>

\* what the output directory may hold before the first run: nothing, a camera
\* file of another data set, or a camera file left half-written
InitialFiles ==
    LET dir == UndistDir(FullArgs(SensorA)) \o <<"/">>
    IN  { {},
          {[path |-> dir \o <<"z", ".", "c", "a", "m">>,
            data |-> <<"7", "\n">>]},
          {[path |-> dir \o <<"i", ".", "c", "a", "m">>,
            data |-> <<"7", " ">>]} }

Pose1 == PoseMatrix(Nums12)
Pose2 == PoseMatrix(NumsId)
UImg1 == UndistDir(FullArgs(SensorA)) \o <<"/", "i", ".", "j", "p", "g">>
UImg2 == UndistDir(FullArgs(SensorA)) \o <<"/", "j", ".", "j", "p", "g">>

RECURSIVE SeqsUpTo(_, _)
\* the sequences of at most n elements of the set
SeqsUpTo(S, n) ==
    IF n = 0 THEN {<<>>}
    ELSE {<<>>} \cup {<<x>> \o t : x \in S, t \in SeqsUpTo(S, n - 1)}

IntrUnset == IntrFailure("unset")
IntrDefault ==
    [status |-> "ok", nf |-> Rat(1, 2), d0 |-> Zero, d1 |-> Zero,
     paspect |-> One, ncx |-> Rat(1, 2), ncy |-> Rat(1, 2)]

----------------------------------------------------------------------------
(* The pipeline: __main__ *)

Init ==
    /\ args \in ArgChoices
    /\ manifest \in DistinctTexts(PipeLineChoices, MaxPipeLines)
    /\ undist_result \in UndistResults
    /\ fs \in InitialFiles
    /\ pc = "sanity"
    /\ status = "running"
    /\ failed_at = ""
    /\ images = <<>>
    /\ world_to_cam = <<>>
    /\ undistorted_images = <<>>
    /\ intr = IntrUnset
    /\ it = 0
    /\ proc_log = <<>>
    /\ exit_log = <<>>
    /\ stage_log = <<>>
    /\ wlog = <<>>
    /\ opened = 0
    /\ run = 1
    /\ fs_at_start = fs

\* an uncaught exception or sys.exit(1): the run ends with a failure status
Abort(stage) ==
    /\ status' = "failed"
    /\ failed_at' = stage
    /\ pc' = "exit"

\* sanity_checks(args)
MissingFlag(a) == \E flag \in ArgFlags : a[flag] = <<>>

SanityChecks ==
    /\ pc = "sanity"
    /\ stage_log' = Append(stage_log, "config")
    /\ IF MissingFlag(args)
       THEN Abort("config")
       ELSE pc' = "parse" /\ UNCHANGED <<status, failed_at>>
    /\ UNCHANGED <<inputs, fs, images, world_to_cam,
                   undistorted_images, intr, it, proc_log, exit_log, wlog,
                   opened, run>>

Parse ==
    /\ pc = "parse"
    /\ stage_log' = Append(stage_log, "parse")
    /\ LET r == parse_images_and_camera_poses(manifest, args.rig_sensor)
       IN  IF r.status # "ok"
           THEN Abort("parse") /\ UNCHANGED <<images, world_to_cam>>
           ELSE /\ images' = r.images
                /\ world_to_cam' = r.world_to_cam
                /\ pc' = "undistort"
                /\ UNCHANGED <<status, failed_at>>
    /\ UNCHANGED <<inputs, fs, undistorted_images,
                   intr, it, proc_log, exit_log, wlog, opened, run>>

\* image = undist_dir + "/" + os.path.basename(image); path + ".jpg"
UndistortedPath(a, image) ==
    Splitext(UndistDir(a) \o <<"/">> \o Basename(image))[1]
        \o <<".", "j", "p", "g">>

\* the exit status ignored
CommandFailed_m(returncode) == FALSE

\* process.returncode != 0
CommandFailed(returncode) == returncode # 0

\* undistort_images: the old directory is wiped, the two index files are
\* written, the undistorter runs and leaves its intrinsics file, and its exit
\* status is checked.  The index files and the log file are not part of the
\* state; the undistorter leaves the same intrinsics file in every run on the
\* same inputs, and exits with either status.
UndistortImages ==
    /\ pc = "undistort"
    /\ stage_log' = Append(stage_log, "undistort")
    /\ undistorted_images' =
           [k \in 1..Len(images) |-> UndistortedPath(args, images[k])]
    /\ proc_log' = Append(proc_log, "undistort_image_texrecon")
    /\ fs' = LET wiped == Rmtree(fs, UndistDir(args))
             IN  IF undist_result.exists
                 THEN WriteFile(wiped, UndistIntrinsics(args),
                                undist_result.data)
                 ELSE wiped
    /\ \E returncode \in {0, 1} :
          /\ exit_log' = Append(exit_log, returncode)
          /\ IF CommandFailed(returncode)
             THEN Abort("undistort")
             ELSE pc' = "intrinsics" /\ UNCHANGED <<status, failed_at>>
    /\ UNCHANGED <<inputs, images, world_to_cam, intr,
                   it, wlog, opened, run>>

ConvertIntrinsics ==
    /\ pc = "intrinsics"
    /\ stage_log' = Append(stage_log, "intrinsics")
    /\ LET p == UndistIntrinsics(args)
           file == [exists |-> Exists(fs, p),
                    data |-> IF Exists(fs, p) THEN DataOf(fs, p) ELSE <<>>]
           r == convert_intrinsics_to_texrecon(file)
       IN  IF r.status # "ok"
           THEN Abort("intrinsics") /\ UNCHANGED intr
           ELSE intr' = r /\ pc' = "cameras" /\ UNCHANGED <<status, failed_at>>
    /\ UNCHANGED <<inputs, fs, images, world_to_cam,
                   undistorted_images, it, proc_log, exit_log, wlog, opened,
                   run>>

----------------------------------------------------------------------------
(* create_texrecon_cameras, one step per system call *)

CurrentCam == CamPath(undistorted_images[it])

\* the length check at the head of the function
CamCheck ==
    /\ pc = "cameras"
    /\ stage_log' = Append(stage_log, "cameras")
    /\ IF CountMismatch(undistorted_images, world_to_cam)
       THEN Abort("count") /\ UNCHANGED it
       ELSE /\ it' = 1
            /\ pc' = IF Len(undistorted_images) = 0 THEN "texrecon"
                     ELSE "cam_open"
            /\ UNCHANGED <<status, failed_at>>
    /\ UNCHANGED <<inputs, fs, images, world_to_cam,
                   undistorted_images, intr, proc_log, exit_log, wlog, opened,
                   run>>

\* open(cam, "w"): the file is created or truncated, or the call fails
CamOpen ==
    /\ pc = "cam_open"
    /\ \E io_ok \in BOOLEAN :
          IF io_ok
          THEN /\ fs' = WriteFile(fs, CurrentCam, <<>>)
               /\ opened' = opened + 1
               /\ pc' = "cam_T"
               /\ UNCHANGED <<status, failed_at>>
          ELSE Abort("write") /\ UNCHANGED <<fs, opened>>
    /\ UNCHANGED <<inputs, images, world_to_cam,
                   undistorted_images, intr, it, proc_log, exit_log,
                   stage_log, wlog, run>>

\* g.write(text): the text reaches the file, or the call fails
CamWrite(at, text, next) ==
    /\ pc = at
    /\ \E io_ok \in BOOLEAN :
          IF io_ok
          THEN /\ fs' = WriteFile(fs, CurrentCam,
                                  DataOf(fs, CurrentCam) \o text)
               /\ pc' = next
               /\ UNCHANGED <<status, failed_at>>
          ELSE Abort("write") /\ UNCHANGED fs
    /\ UNCHANGED <<inputs, images, world_to_cam,
                   undistorted_images, intr, proc_log, exit_log, stage_log,
                   opened, run>>

\* M = world_to_cam[it], then the translation is written
CamWriteTranslation ==
    IF pc = "cam_T" /\ it > Len(world_to_cam)
    THEN /\ Abort("index")
         /\ UNCHANGED <<inputs, fs, images,
                        world_to_cam, undistorted_images, intr, it, proc_log,
                        exit_log, stage_log, wlog, opened, run>>
    ELSE /\ CamWrite("cam_T", TranslationText(world_to_cam[it]), "cam_R")
         /\ UNCHANGED <<it, wlog>>

CamWriteRotation ==
    /\ CamWrite("cam_R", RotationText(world_to_cam[it]), "cam_K")
    /\ UNCHANGED <<it, wlog>>

\* the intrinsics are written, the file is closed and the loop goes on
CamWriteIntrinsics ==
    /\ CamWrite("cam_K", IntrinsicsText(intr),
                IF it < Len(undistorted_images) THEN "cam_open"
                ELSE "texrecon")
    /\ IF status' = "failed"
       THEN UNCHANGED <<it, wlog>>
       ELSE /\ it' = it + 1
            /\ wlog' = Append(wlog, [path |-> CurrentCam,
                                     data |-> DataOf(fs', CurrentCam)])

----------------------------------------------------------------------------
(* run_texrecon *)

RunTexrecon ==
    /\ pc = "texrecon"
    /\ stage_log' = Append(stage_log, "texrecon")
    /\ \E texrecon_exists \in BOOLEAN, returncode \in {0, 1} :
          IF ~texrecon_exists
          THEN Abort("texrecon") /\ UNCHANGED <<proc_log, exit_log>>
          ELSE /\ proc_log' = Append(proc_log, "texrecon")
               /\ exit_log' = Append(exit_log, returncode)
               /\ IF CommandFailed(returncode)
                  THEN Abort("texrecon")
                  ELSE /\ status' = "ok"
                       /\ pc' = "exit"
                       /\ UNCHANGED failed_at
    /\ UNCHANGED <<inputs, fs, images, world_to_cam,
                   undistorted_images, intr, it, wlog, opened, run>>

\* the program is started again on the same inputs and the same directory
Rerun ==
    /\ pc = "exit"
    /\ run < MaxRuns
    /\ run' = run + 1
    /\ pc' = "sanity"
    /\ status' = "running"
    /\ failed_at' = ""
    /\ images' = <<>>
    /\ world_to_cam' = <<>>
    /\ undistorted_images' = <<>>
    /\ intr' = IntrUnset
    /\ it' = 0
    /\ proc_log' = <<>>
    /\ exit_log' = <<>>
    /\ stage_log' = <<>>
    /\ wlog' = <<>>
    /\ opened' = 0
    /\ fs_at_start' = fs
    /\ UNCHANGED <<args, manifest, undist_result, fs>>

Next ==
    \/ SanityChecks
    \/ Parse
    \/ UndistortImages
    \/ ConvertIntrinsics
    \/ CamCheck
    \/ CamOpen
    \/ CamWriteTranslation
    \/ CamWriteRotation
    \/ CamWriteIntrinsics
    \/ RunTexrecon
    \/ Rerun

Spec == Init /\ [][Next]_vars

----------------------------------------------------------------------------
(* create_texrecon_cameras called on its own *)

InitWriter ==
    /\ args = FullArgs(SensorA)
    /\ manifest = <<>>
    /\ undist_result = [exists |-> FALSE, data |-> <<>>]
    /\ fs \in InitialFiles
    /\ pc = "cameras"
    /\ status = "running"
    /\ failed_at = ""
    /\ images = <<>>
    /\ world_to_cam \in SeqsUpTo({Pose1, Pose2}, MaxSeq)
    /\ undistorted_images \in SeqsUpTo({UImg1, UImg2}, MaxSeq)
    /\ intr = IntrDefault
    /\ it = 0
    /\ proc_log = <<>>
    /\ exit_log = <<>>
    /\ stage_log = <<>>
    /\ wlog = <<>>
    /\ opened = 0
    /\ run = 1
    /\ fs_at_start = fs

NextWriter ==
    \/ CamCheck
    \/ CamOpen
    \/ CamWriteTranslation
    \/ CamWriteRotation
    \/ CamWriteIntrinsics

SpecWriter == InitWriter /\ [][NextWriter]_vars

----------------------------------------------------------------------------
(* parse_images_and_camera_poses called on its own *)

InitParse ==
    /\ args \in {FullArgs(s) : s \in {SensorA, SensorB}}
    /\ manifest \in Texts(ParseLineChoices, MaxLines)
    /\ undist_result = [exists |-> FALSE, data |-> <<>>]
    /\ fs = {}
    /\ pc = "call_parse"
    /\ status = "running"
    /\ failed_at = ""
    /\ images = <<>>
    /\ world_to_cam = <<>>
    /\ undistorted_images = <<>>
    /\ intr = IntrUnset
    /\ it = 0
    /\ proc_log = <<>>
    /\ exit_log = <<>>
    /\ stage_log = <<>>
    /\ wlog = <<>>
    /\ opened = 0
    /\ run = 1
    /\ fs_at_start = fs

ParseCall ==
    /\ pc = "call_parse"
    /\ LET r == parse_images_and_camera_poses(manifest, args.rig_sensor)
       IN  /\ images' = r.images
           /\ world_to_cam' = r.world_to_cam
           /\ status' = IF r.status = "ok" THEN "ok" ELSE "failed"
           /\ failed_at' = IF r.status = "ok" THEN "" ELSE r.status
    /\ pc' = "returned"
    /\ UNCHANGED <<inputs, fs, undistorted_images,
                   intr, it, proc_log, exit_log, stage_log, wlog, opened,
                   run>>

SpecParse == InitParse /\ [][ParseCall]_vars

----------------------------------------------------------------------------
(* convert_intrinsics_to_texrecon called on its own *)

InitConvert ==
    /\ args = FullArgs(SensorA)
    /\ manifest = <<>>
    /\ undist_result \in IntrFiles
    /\ fs = {}
    /\ pc = "call_convert"
    /\ status = "running"
    /\ failed_at = ""
    /\ images = <<>>
    /\ world_to_cam = <<>>
    /\ undistorted_images = <<>>
    /\ intr = IntrUnset
    /\ it = 0
    /\ proc_log = <<>>
    /\ exit_log = <<>>
    /\ stage_log = <<>>
    /\ wlog = <<>>
    /\ opened = 0
    /\ run = 1
    /\ fs_at_start = fs

ConvertCall ==
    /\ pc = "call_convert"
    /\ LET r == convert_intrinsics_to_texrecon(undist_result)
       IN  /\ intr' = r
           /\ status' = IF r.status = "ok" THEN "ok" ELSE "failed"
           /\ failed_at' = IF r.status = "ok" THEN "" ELSE r.status
    /\ pc' = "returned"
    /\ UNCHANGED <<inputs, fs, images, world_to_cam,
                   undistorted_images, it, proc_log, exit_log, stage_log,
                   wlog, opened, run>>

SpecConvert == InitConvert /\ [][ConvertCall]_vars

----------------------------------------------------------------------------
(* What the manifest says, read off its text without the parser *)

\* the k-th smallest element of a set of numbers
Nth(S, k) == CHOOSE i \in S : Cardinality({j \in S : j < i}) = k - 1

\* the non-empty components of a path, between its slashes
Components(p) == Runs(p, {"/"})

\* the name of the directory that holds the image, "" when it has none
ParentDirName(image) ==
    LET cs == Components(image)
    IN  IF Len(cs) < 2 THEN <<>> ELSE cs[Len(cs) - 1]

\* the tokens of a line before its comment
LineTokens(line) ==
    LET h == Find(line, "#")
    IN  Split(IF h = 0 THEN line ELSE SubSeq(line, 1, h - 1))

\* the tokens of every line of the manifest
ManifestTokens ==
    LET lines == ReadLines(manifest)
    IN  [i \in 1..Len(lines) |-> LineTokens(lines[i])]

\* the lines that are neither empty nor comment-only
DataLinesOf(mt) == {i \in 1..Len(mt) : mt[i] # <<>>}

IsFloatToken(tok) == ~IsErr(Float(tok))

\* a line with fewer than 13 tokens
ShortLine(toks) == Len(toks) < 13
\* a line one of whose 12 numeric tokens is no floating-point value
BadNumberLine(toks) ==
    \E k \in 2..13 : k <= Len(toks) /\ ~IsFloatToken(toks[k])

OfSensor(toks) == ParentDirName(toks[1]) = args.rig_sensor

\* the data lines of the target sensor, in manifest order
SelectedOf(mt) ==
    LET sel == {i \in DataLinesOf(mt) : OfSensor(mt[i])}
    IN  [k \in 1..Cardinality(sel) |-> Nth(sel, k)]

\* v1..v12 of a line: the values of its numeric tokens
ValuesOf(toks) == [j \in 1..12 |-> Float(toks[j + 1])]

\* the record of a line: R[r][c] = v(3r+c+1) for r, c in 0..2, then the
\* translation v10 v11 v12
PoseIsOfLine(M, toks) ==
    LET v == ValuesOf(toks)
    IN  /\ \A r \in 1..3 : \A c \in 1..3 : M[r][c] = v[3 * (r - 1) + c]
        /\ \A r \in 1..3 : M[r][4] = v[9 + r]

Returned == pc = "returned" /\ status = "ok"
Raised == pc = "returned" /\ status = "failed"

----------------------------------------------------------------------------
(* C2 *)

\* C2: when parse_images_and_camera_poses returns, the image list and the pose
\* list have the same length, and index k of both holds the record of the
\* k-th manifest line whose image path's parent directory name equals the
\* target sensor name: exactly those lines, in manifest order.
C2_ExactOrderedSelection ==
    Returned =>
        LET mt  == ManifestTokens
            sel == SelectedOf(mt)
        IN  /\ Len(images) = Len(sel)
            /\ Len(world_to_cam) = Len(sel)
            /\ \A k \in 1..Len(sel) :
                  /\ images[k] = mt[sel[k]][1]
                  /\ PoseIsOfLine(world_to_cam[k], mt[sel[k]])

\* a manifest of two data lines of which only the second, in a directory A
\* below another directory, is of the target sensor
C2_Witness ==
    /\ Returned
    /\ DataLinesOf(ManifestTokens) = {1, 2}
    /\ SelectedOf(ManifestTokens) = <<2>>
    /\ images = <<Img_CA_i>>

----------------------------------------------------------------------------
(* C4 *)

\* C4 as claimed: the parser fails, returning no records, whenever some data
\* line has fewer than 13 tokens or a numeric token that is no float,
\* whichever sensor the line belongs to.
C4_Original ==
    pc = "returned" =>
        LET mt == ManifestTokens
        IN  (\E i \in DataLinesOf(mt) :
                 ShortLine(mt[i]) \/ BadNumberLine(mt[i]))
                => (Raised /\ images = <<>> /\ world_to_cam = <<>>)

\* C4, amended: the parser fails, returning no records, whenever some data
\* line of any sensor has fewer than 13 tokens, or some data line of the
\* target sensor has among its 12 numeric tokens one that is no float.
C4_FailsOnMalformedLine ==
    pc = "returned" =>
        LET mt == ManifestTokens
        IN  (\E i \in DataLinesOf(mt) :
                 ShortLine(mt[i]) \/ (OfSensor(mt[i]) /\ BadNumberLine(mt[i])))
                => (Raised /\ images = <<>> /\ world_to_cam = <<>>)

\* the parser failed on a manifest whose only defective line is a short line
\* of another sensor, standing after a well-formed line of the target sensor
C4_Witness ==
    LET mt == ManifestTokens
    IN  /\ Raised
        /\ DataLinesOf(mt) = {1, 2}
        /\ OfSensor(mt[1]) /\ ~ShortLine(mt[1]) /\ ~BadNumberLine(mt[1])
        /\ ~OfSensor(mt[2]) /\ ShortLine(mt[2])

----------------------------------------------------------------------------
(* What the intrinsics file says, read off its text *)

IntrLines == ReadLines(undist_result.data)

\* a line whose first character after leading whitespace is '#'
CommentLine(l) ==
    LET body == {h \in 1..Len(l) : ~IsSpace(l[h])}
    IN  body # {} /\ l[Nth(body, 1)] = "#"

\* the first line that is no comment has at least 5 tokens
HasDataLine ==
    /\ undist_result.exists
    /\ \E k \in 1..Len(IntrLines) :
          /\ ~CommentLine(IntrLines[k])
          /\ \A j \in 1..(k - 1) : CommentLine(IntrLines[j])
          /\ Len(Split(IntrLines[k])) >= 5

DataLineTokens ==
    Split(IntrLines[CHOOSE k \in 1..Len(IntrLines) :
                        /\ ~CommentLine(IntrLines[k])
                        /\ \A j \in 1..(k - 1) : CommentLine(IntrLines[j])])

\* value j of the data line: width, height, focal, cx, cy
W(j) == Float(DataLineTokens[j])

StrictlyPositive(v) == IsNum(v) /\ v.n > 0

\* the result is computed from the data line alone
NormalizedFromDataLine(r) ==
    /\ r.nf = FDiv(W(3), IF FGt(W(2), W(1)) THEN W(2) ELSE W(1))
    /\ r.ncx = FDiv(W(4), W(1))
    /\ r.ncy = FDiv(W(5), W(2))
    /\ r.d0 = Zero /\ r.d1 = Zero /\ r.paspect = One

----------------------------------------------------------------------------
(* C6 *)

\* C6: convert_intrinsics_to_texrecon returns a result only when a data line
\* with at least 5 tokens was found after the comment lines and the normalized
\* focal length computed from that line (focal / max(width, height)) is
\* strictly positive; the result is computed from that line alone; in every
\* other case the call fails.
C6_ReturnsOnlyPositiveFocal ==
    pc = "returned" =>
        IF status = "ok"
        THEN /\ HasDataLine
             /\ NormalizedFromDataLine(intr)
             /\ StrictlyPositive(intr.nf)
        ELSE status = "failed"

----------------------------------------------------------------------------
(* C5 *)

\* C5: called with an image sequence and a pose sequence of different
\* lengths, create_texrecon_cameras fails on the count check and opens no
\* camera file: the files on disk are those the call found.
C5_MismatchWritesNothing ==
    Len(undistorted_images) # Len(world_to_cam) =>
        /\ pc \in {"cameras", "exit"}
        /\ pc = "exit" => (status = "failed" /\ failed_at = "count")
        /\ opened = 0
        /\ wlog = <<>>
        /\ fs = fs_at_start

\* the call failed with more images than poses, at least one pose, and an old
\* camera file on disk
C5_Witness ==
    /\ pc = "exit"
    /\ failed_at = "count"
    /\ Len(undistorted_images) > Len(world_to_cam)
    /\ Len(world_to_cam) >= 1
    /\ fs # {}

----------------------------------------------------------------------------
(* Camera files *)

IsCamPath(p) ==
    Len(p) >= 4 /\ SubSeq(p, Len(p) - 3, Len(p)) = <<".", "c", "a", "m">>

\* the camera parameter files on disk
CamFiles == {f \in fs : IsCamPath(f.path)}

\* the camera parameter files this run wrote to the end
Completed == {wlog[k] : k \in 1..Len(wlog)}

CountOf(text, c) == Cardinality({i \in 1..Len(text) : text[i] = c})

\* the numbers of tokens of the lines of a text
TokensPerLine(text) ==
    LET lines == ReadLines(text)
    IN  [k \in 1..Len(lines) |-> Len(Split(lines[k]))]

----------------------------------------------------------------------------
(* C1 *)

\* C1 as claimed: every camera file written has three lines of 3, 9 and 6
\* tokens and three line terminators.
C1_Original ==
    \A w \in Completed :
        /\ TokensPerLine(w.data) = <<3, 9, 6>>
        /\ CountOf(w.data, "\n") = 3

\* C1, amended: every camera file written has exactly two lines and two line
\* terminators: line 1 holds the 3 translation values followed by the 9
\* rotation values (12 tokens, no line break between translation and
\* rotation), line 2 holds the 6 normalized-intrinsics values.
C1_TwoLines ==
    \A w \in Completed :
        /\ TokensPerLine(w.data) = <<12, 6>>
        /\ CountOf(w.data, "\n") = 2
        /\ w.data[Len(w.data)] = "\n"

\* two camera files were written in one run
C1_Witness == Len(wlog) = 2 /\ wlog[1].path # wlog[2].path

----------------------------------------------------------------------------
(* C3 *)

\* the values written in a camera file, in the order of the file
ValuesIn(text) ==
    LET toks == Split(text)
    IN  [k \in 1..Len(toks) |-> Float(toks[k])]

\* C3: the k-th camera file written holds, for the k-th selected manifest
\* line with numeric tokens v1..v12, the values v10 v11 v12, then v1..v9, then
\* the shared intrinsics nf d0 d1 paspect ncx ncy; nothing after the 13th
\* token of the line is used.
C3_FileHoldsPoseOfLine ==
    wlog # <<>> =>
        LET mt  == ManifestTokens
            sel == SelectedOf(mt)
        IN  \A k \in 1..Len(wlog) :
                LET v == ValuesOf(mt[sel[k]])
                IN  /\ k <= Len(sel)
                    /\ ValuesIn(wlog[k].data) =
                           <<v[10], v[11], v[12],
                             v[1], v[2], v[3], v[4], v[5], v[6], v[7], v[8],
                             v[9],
                             intr.nf, intr.d0, intr.d1, intr.paspect,
                             intr.ncx, intr.ncy>>

\* a camera file was written for a line of twelve different values, and one
\* for a line with tokens after the 13th
C3_Witness ==
    /\ Len(wlog) = 2
    /\ LET mt  == ManifestTokens
           sel == SelectedOf(mt)
       IN  /\ \E k \in 1..2 : Len(mt[sel[k]]) > 13
           /\ \E k \in 1..2 :
                 Cardinality({ValuesOf(mt[sel[k]])[j] : j \in 1..12}) = 12

----------------------------------------------------------------------------
(* C7 *)

\* C7: after a successful run the number of selected records equals the
\* number of distinct undistorted-image paths and the number of camera files
\* on disk.
C7_OneFilePerRecord ==
    status = "ok" =>
        /\ Cardinality({undistorted_images[k] :
                           k \in 1..Len(undistorted_images)}) = Len(images)
        /\ Cardinality(CamFiles) = Len(images)

----------------------------------------------------------------------------
(* C8 *)

\* the name of an image without its directories and its extension
FileStem(image) ==
    LET cs   == Components(image)
        name == cs[Len(cs)]
        dot  == RFind(name, ".")
    IN  IF dot > 1 THEN SubSeq(name, 1, dot - 1) ELSE name

ExpectedCamPath(toks) ==
    UndistDir(args) \o <<"/">> \o FileStem(toks[1])
        \o <<".", "c", "a", "m">>

ExpectedCamData(toks, k) ==
    LET M == PoseMatrix(SubSeq(toks, 2, 13))
    IN  TranslationText(M) \o RotationText(M) \o IntrinsicsText(k)

\* the camera files the inputs determine: one for each selected line, a later
\* line replacing an earlier one of the same file name
ExpectedCams ==
    LET mt   == ManifestTokens
        sel  == SelectedOf(mt)
        k    == convert_intrinsics_to_texrecon(undist_result)
        path == [j \in 1..Len(sel) |-> ExpectedCamPath(mt[sel[j]])]
    IN  {[path |-> path[j], data |-> ExpectedCamData(mt[sel[j]], k)] :
            j \in {j \in 1..Len(sel) :
                      \A l \in (j + 1)..Len(sel) : path[l] # path[j]}}

\* C8: after every successful run, the first or a later one, the camera files
\* on disk are those the inputs determine, whatever the output directory held
\* before the run.
C8_CamFilesDependOnInputsOnly == status = "ok" => CamFiles = ExpectedCams

\* a second run succeeded in a directory where the run before it had left a
\* camera file that the inputs do not determine
C8_Witness ==
    /\ status = "ok"
    /\ run = 2
    /\ CamFiles # {}
    /\ \E f \in fs_at_start : IsCamPath(f.path) /\ f \notin ExpectedCams

----------------------------------------------------------------------------
(* C9 *)

StageOrder ==
    <<"config", "parse", "undistort", "intrinsics", "cameras", "texrecon">>

Started(process) == \E k \in 1..Len(proc_log) : proc_log[k] = process

\* C9: the stages of a run begin in the fixed order; a stage that fails ends
\* the run with a failure status and nothing of a later stage happens: no
\* process is started and no file touched after a configuration or parse
\* failure, no camera file is opened after an undistorter or intrinsics
\* failure, a process that exits with a non-zero status is the last thing of
\* the run, and the texturer is started only after every camera file has been
\* written.
C9_StagesInOrder ==
    /\ IsPrefix(stage_log, StageOrder)
    /\ status = "failed" => pc = "exit"
    /\ status = "ok" => stage_log = StageOrder
    /\ failed_at \in {"config", "parse"} =>
          proc_log = <<>> /\ opened = 0 /\ fs = fs_at_start
    /\ failed_at = "config" => stage_log = <<"config">>
    /\ failed_at = "parse" => stage_log = <<"config", "parse">>
    /\ failed_at = "undistort" =>
          stage_log = SubSeq(StageOrder, 1, 3) /\ opened = 0 /\ CamFiles = {}
    /\ failed_at = "intrinsics" =>
          stage_log = SubSeq(StageOrder, 1, 4) /\ opened = 0 /\ CamFiles = {}
    /\ failed_at \in {"count", "write"} => ~Started("texrecon")
    /\ \A k \in 1..Len(exit_log) :
          exit_log[k] # 0 => (status = "failed" /\ k = Len(exit_log))
    /\ opened > 0 => (intr.status = "ok" /\ exit_log[1] = 0)
    /\ Started("texrecon") =>
          /\ Len(wlog) = Len(images)
          /\ opened = Len(images)
          /\ proc_log = <<"undistort_image_texrecon", "texrecon">>

\* the undistorter failed in a run that had records to write camera files for
C9_Witness ==
    /\ failed_at = "undistort"
    /\ Len(images) = 2
    /\ exit_log = <<1>>

----------------------------------------------------------------------------
(* C10 *)

\* C10: when a write of a camera file fails, the batch stops and every camera
\* file on disk holds its complete content.
C10_NoPartialFile ==
    (status = "failed" /\ failed_at = "write") => CamFiles \subseteq Completed

====
